---- MODULE Spec2Model ----
(***************************************************************************)
(* A model of yeetcode: the POST / interaction handler of main.go, the     *)
(* LeetCode client of internal/leetcode, and run's server lifecycle        *)
(* (listener goroutine, interrupt signal, select, Shutdown, Close, exit).  *)
(*                                                                         *)
(* Strings the code converts or concatenates (the difficulty option, the   *)
(* title slug, the reply content) are sequences of one-character strings,  *)
(* so that strings.ToUpper and fmt.Sprintf are computed, not assumed.      *)
(***************************************************************************)
EXTENDS Integers, Sequences, FiniteSets, TLC

\* Number of requests the server accepts, each served by its own handler
\* goroutine; the handlers share no state.
NumHandlers == 1

Handlers == 1..NumHandlers

\* http.StatusOK, http.StatusBadRequest, http.StatusInternalServerError.
StatusOK == 200
StatusBadRequest == 400
StatusInternalServerError == 500

Nil == "nil"

(***************************************************************************)
(* Strings                                                                 *)
(***************************************************************************)
LowerLetters ==
    << "a", "b", "c", "d", "e", "f", "g", "h", "i", "j", "k", "l", "m",
       "n", "o", "p", "q", "r", "s", "t", "u", "v", "w", "x", "y", "z" >>

UpperLetters ==
    << "A", "B", "C", "D", "E", "F", "G", "H", "I", "J", "K", "L", "M",
       "N", "O", "P", "Q", "R", "S", "T", "U", "V", "W", "X", "Y", "Z" >>

\* unicode.ToUpper on one (ASCII) character.
UpperChar(c) ==
    IF \E i \in DOMAIN LowerLetters : LowerLetters[i] = c
    THEN UpperLetters[CHOOSE i \in DOMAIN LowerLetters : LowerLetters[i] = c]
    ELSE c

\* Mutant of ToUpper: the option's value is used as it was sent.
ToUpper_Identity(s) == s

\* strings.ToUpper.
ToUpper(s) == [i \in DOMAIN s |-> UpperChar(s[i])]

\* leetcode.DifficultyEasy, DifficultyMedium, DifficultyHard.
DifficultyEasy == << "E", "A", "S", "Y" >>
DifficultyMedium == << "M", "E", "D", "I", "U", "M" >>
DifficultyHard == << "H", "A", "R", "D" >>

Difficulties == { DifficultyEasy, DifficultyMedium, DifficultyHard }

\* The values of a "difficulty" option the model feeds the handler.
RawValues ==
    { << "E", "A", "S", "Y" >>,
      << "m", "e", "d", "i", "u", "m" >>,
      << "h", "A", "r", "D" >>,
      << "H", "a", "r", "d" >>,
      << "f", "o", "o" >>,
      << >> }

\* The title slugs the question source answers with; the empty slug is passed
\* through by the client as it is.
Slugs == { << "t", "w", "o", "-", "s", "u", "m" >>, << >> }

\* "https://leetcode.com/problems/"
UrlPrefix ==
    << "h", "t", "t", "p", "s", ":", "/", "/",
       "l", "e", "e", "t", "c", "o", "d", "e", ".", "c", "o", "m",
       "/", "p", "r", "o", "b", "l", "e", "m", "s", "/" >>

(***************************************************************************)
(* Interactions                                                            *)
(***************************************************************************)
InteractionPing == "InteractionPing"
InteractionApplicationCommand == "InteractionApplicationCommand"
InteractionMessageComponent == "InteractionMessageComponent"

InteractionResponsePong == "InteractionResponsePong"

Option(name, value) == [Name |-> name, Value |-> value]

\* Option lists of a command: Discord keeps option names unique in a command.
OptionLists ==
    { << >> }
    \cup { << Option("difficulty", v) >> : v \in RawValues }
    \cup { << Option("tag", << "d", "p" >>),
              Option("difficulty", << "h", "a", "r", "d" >>) >> }

NoInteraction == [Type |-> "none", Options |-> << >>]

\* The interactions a verified body can decode to.
Interactions ==
    { [Type |-> InteractionPing, Options |-> << >>],
      [Type |-> InteractionMessageComponent, Options |-> << >>] }
    \cup { [Type |-> InteractionApplicationCommand, Options |-> o] :
             o \in OptionLists }

(***************************************************************************)
(* State                                                                   *)
(***************************************************************************)
VARIABLES
    hpc,           \* handler -> its position in the POST / handler
    interaction,   \* handler -> the decoded interaction
    lcResp,        \* handler -> the title slug of the fetched question
    w,             \* handler -> the http.ResponseWriter's state
    log,           \* handler -> the calls the handler has made, in order
    runPc,         \* run's position
    runErr,        \* the error run returned
    exitCode,      \* the process's exit code, -1 while it runs
    ctxDone,       \* the signal.NotifyContext context is cancelled
    lis,           \* the listener goroutine's position
    lisErr,        \* what srv.ListenAndServe returned
    errCh,         \* the buffered channel errCh
    inShutdown,    \* srv.Shutdown or srv.Close has been called
    deadlineExpired, \* srv.Shutdown returned the deadline's error
    forcedClose,   \* srv.Close has been called
    lisErrFirst,   \* ListenAndServe had returned its own error when the
                   \* interrupt signal arrived
    atSignal       \* handler -> it was in flight when the signal arrived

hvars == << hpc, interaction, lcResp, w, log >>
rvars == << runPc, runErr, exitCode, ctxDone, lis, lisErr, errCh,
            inShutdown, deadlineExpired, forcedClose, lisErrFirst, atSignal >>
vars == << hpc, interaction, lcResp, w, log, runPc, runErr, exitCode,
           ctxDone, lis, lisErr, errCh, inShutdown, deadlineExpired,
           forcedClose, lisErrFirst, atSignal >>

Event(op, code, str, ok) == [op |-> op, code |-> code, str |-> str, ok |-> ok]

NewResponse == [wroteHeader |-> FALSE, status |-> 0, body |-> << >>]

\* http.ResponseWriter.WriteHeader: the first call sets the status, a later
\* call is superfluous and leaves the response as it is.
WriteHeader(resp, code) ==
    IF resp.wroteHeader
    THEN resp
    ELSE [resp EXCEPT !.wroteHeader = TRUE, !.status = code]

HeaderEvent(code) == Event("WriteHeader", code, << >>, TRUE)

\* One step of handler h: its next position, the calls it made in the step
\* and the response writer they leave.
Step(h, pc, events, resp) ==
    /\ hpc' = [hpc EXCEPT ![h] = pc]
    /\ log' = [log EXCEPT ![h] = log[h] \o events]
    /\ w' = [w EXCEPT ![h] = resp]

InFlight(h) == hpc[h] \notin { "idle", "done", "killed" }

Alive == runPc # "exited"

(***************************************************************************)
(* internal/leetcode                                                       *)
(***************************************************************************)
\* leetcode.RandomDifficulty, n the value of rand.IntN(3).
RandomDifficulty(n) ==
    CASE n = 0 -> DifficultyEasy
      [] n = 1 -> DifficultyMedium
      [] n = 2 -> DifficultyHard
      [] OTHER -> DifficultyEasy

\* The errors Client.RandomQuestion returns.
FetchErrors ==
    { "failed encoding request body", "failed building http request",
      "failed making http request", "failed decoding http response" }

\* What Client.RandomQuestion returns: a response with a title slug and no
\* error, or an empty response and an error.
RandomQuestionResults ==
    { [TitleSlug |-> s, err |-> Nil] : s \in Slugs }
    \cup { [TitleSlug |-> << >>, err |-> e] : e \in FetchErrors }

(***************************************************************************)
(* fetchLeetCodeQuestion                                                   *)
(***************************************************************************)
\* The loop over applicationCommandData.Options: the upper-cased value of the
\* first option named "difficulty", the empty string when there is none.
DifficultyOpt(options) ==
    LET named == { i \in DOMAIN options : options[i].Name = "difficulty" }
    IN  IF named = {}
        THEN << >>
        ELSE ToUpper(options[CHOOSE i \in named : \A j \in named : i <= j].Value)

\* The switch on difficultyOpt: the difficulties it can resolve to.
ResolveDifficulty(difficultyOpt) ==
    CASE difficultyOpt = DifficultyEasy -> { DifficultyEasy }
      [] difficultyOpt = DifficultyMedium -> { DifficultyMedium }
      [] difficultyOpt = DifficultyHard -> { DifficultyHard }
      [] OTHER -> { RandomDifficulty(n) : n \in 0..2 }

\* Mutant of Content: the format string lacks the slash before the slug.
Content_MissingSlash(titleSlug) ==
    SubSeq(UrlPrefix, 1, Len(UrlPrefix) - 1) \o titleSlug

\* fmt.Sprintf("https://leetcode.com/problems/%s", titleSlug).
Content(titleSlug) == UrlPrefix \o titleSlug

(***************************************************************************)
(* The POST / handler                                                      *)
(***************************************************************************)
\* The server accepts a request and starts its handler.
Accept(h) ==
    /\ Alive
    /\ lis = "serving"
    /\ ~inShutdown
    /\ hpc[h] = "idle"
    /\ hpc' = [hpc EXCEPT ![h] = "verify"]
    /\ UNCHANGED << interaction, lcResp, w, log, rvars >>

\* Mutant of Verify: the return after the 400 is missing.
Verify_NoReturn(h) ==
    /\ Alive
    /\ hpc[h] = "verify"
    /\ \E ok \in BOOLEAN :
         IF ~ok
         THEN Step(h, "decode",
                   << Event("VerifyInteraction", 0, << >>, FALSE),
                      HeaderEvent(StatusBadRequest) >>,
                   WriteHeader(w[h], StatusBadRequest))
         ELSE Step(h, "decode",
                   << Event("VerifyInteraction", 0, << >>, TRUE) >>, w[h])
    /\ UNCHANGED << interaction, lcResp, rvars >>

\* discordgo.VerifyInteraction; on failure 400 and return.
Verify(h) ==
    /\ Alive
    /\ hpc[h] = "verify"
    /\ \E ok \in BOOLEAN :
         IF ~ok
         THEN Step(h, "done",
                   << Event("VerifyInteraction", 0, << >>, FALSE),
                      HeaderEvent(StatusBadRequest) >>,
                   WriteHeader(w[h], StatusBadRequest))
         ELSE Step(h, "decode",
                   << Event("VerifyInteraction", 0, << >>, TRUE) >>, w[h])
    /\ UNCHANGED << interaction, lcResp, rvars >>

\* json.NewDecoder(r.Body).Decode(&interaction); on failure 400 and return.
Decode(h) ==
    /\ Alive
    /\ hpc[h] = "decode"
    /\ \E res \in Interactions \cup { NoInteraction } :
         IF res = NoInteraction
         THEN /\ Step(h, "done",
                      << Event("Decode", 0, << >>, FALSE),
                         HeaderEvent(StatusBadRequest) >>,
                      WriteHeader(w[h], StatusBadRequest))
              /\ UNCHANGED interaction
         ELSE /\ Step(h, "dispatch", << Event("Decode", 0, << >>, TRUE) >>, w[h])
              /\ interaction' = [interaction EXCEPT ![h] = res]
    /\ UNCHANGED << lcResp, rvars >>

\* Mutant of Dispatch: the ping branch is missing and only an unsupported
\* type is refused, so a ping goes on as a command.
Dispatch_PingAsCommand(h) ==
    /\ Alive
    /\ hpc[h] = "dispatch"
    /\ IF interaction[h].Type \notin { InteractionPing, InteractionApplicationCommand }
       THEN Step(h, "done", << HeaderEvent(StatusBadRequest) >>,
                 WriteHeader(w[h], StatusBadRequest))
       ELSE Step(h, "fetch", << >>, w[h])
    /\ UNCHANGED << interaction, lcResp, rvars >>

\* The branch on interaction.Type: a ping writes 200 and goes on to encode
\* the pong, a command goes on to the fetch, any other type is a 400.
Dispatch(h) ==
    /\ Alive
    /\ hpc[h] = "dispatch"
    /\ IF interaction[h].Type = InteractionPing
       THEN Step(h, "encode", << HeaderEvent(StatusOK) >>,
                 WriteHeader(w[h], StatusOK))
       ELSE IF interaction[h].Type # InteractionApplicationCommand
       THEN Step(h, "done", << HeaderEvent(StatusBadRequest) >>,
                 WriteHeader(w[h], StatusBadRequest))
       ELSE Step(h, "fetch", << >>, w[h])
    /\ UNCHANGED << interaction, lcResp, rvars >>

\* json.NewEncoder(w).Encode(resp) of the pong; on failure a second
\* WriteHeader, of 500, and return.
PingEncode(h) ==
    /\ Alive
    /\ hpc[h] = "encode"
    /\ \E ok \in BOOLEAN :
         IF ok
         THEN Step(h, "done",
                   << Event("Encode", 0, << >>, TRUE) >>,
                   [w[h] EXCEPT !.body = Append(@, InteractionResponsePong)])
         ELSE Step(h, "done",
                   << Event("Encode", 0, << >>, FALSE),
                      HeaderEvent(StatusInternalServerError) >>,
                   WriteHeader(w[h], StatusInternalServerError))
    /\ UNCHANGED << interaction, lcResp, rvars >>

\* Mutant of Fetch: the return after the 500 is missing, the handler goes on
\* to the reply with the empty response.
Fetch_NoReturnOnError(h) ==
    /\ Alive
    /\ hpc[h] = "fetch"
    /\ \E difficulty \in ResolveDifficulty(DifficultyOpt(interaction[h].Options)),
          res \in RandomQuestionResults :
         /\ IF res.err # Nil
            THEN Step(h, "respond",
                      << Event("RandomQuestion", 0, difficulty, FALSE),
                         HeaderEvent(StatusInternalServerError) >>,
                      WriteHeader(w[h], StatusInternalServerError))
            ELSE Step(h, "respond",
                      << Event("RandomQuestion", 0, difficulty, TRUE) >>, w[h])
         /\ lcResp' = [lcResp EXCEPT ![h] = res.TitleSlug]
    /\ UNCHANGED << interaction, rvars >>

\* fetchLeetCodeQuestion: resolve the difficulty and call
\* Client.RandomQuestion with it; on an error 500 and return.
Fetch(h) ==
    /\ Alive
    /\ hpc[h] = "fetch"
    /\ \E difficulty \in ResolveDifficulty(DifficultyOpt(interaction[h].Options)),
          res \in RandomQuestionResults :
         IF res.err # Nil
         THEN /\ Step(h, "done",
                      << Event("RandomQuestion", 0, difficulty, FALSE),
                         HeaderEvent(StatusInternalServerError) >>,
                      WriteHeader(w[h], StatusInternalServerError))
              /\ UNCHANGED lcResp
         ELSE /\ Step(h, "respond",
                      << Event("RandomQuestion", 0, difficulty, TRUE) >>, w[h])
              /\ lcResp' = [lcResp EXCEPT ![h] = res.TitleSlug]
    /\ UNCHANGED << interaction, rvars >>

\* discordClient.InteractionRespond with the question's URL; 500 on an
\* error, 200 otherwise.
Respond(h) ==
    /\ Alive
    /\ hpc[h] = "respond"
    /\ \E ok \in BOOLEAN :
         LET code == IF ok THEN StatusOK ELSE StatusInternalServerError
         IN  Step(h, "done",
                  << Event("InteractionRespond", 0, Content(lcResp[h]), ok),
                     HeaderEvent(code) >>,
                  WriteHeader(w[h], code))
    /\ UNCHANGED << interaction, lcResp, rvars >>

HandlerStep(h) ==
    \/ Verify(h)
    \/ Decode(h)
    \/ Dispatch(h)
    \/ PingEncode(h)
    \/ Fetch(h)
    \/ Respond(h)

(***************************************************************************)
(* main and run: startup, the listener goroutine, the select, shutdown     *)
(***************************************************************************)
ErrServerClosed == "http: Server closed"
ErrBind == "listen tcp :3000: bind: address already in use"
ErrAccept == "accept tcp :3000: fatal error"
ErrClose == "close tcp :3000: error"

\* The environment run reads and whether the trace exporter initializes.
Envs ==
    [ exporterOk : BOOLEAN,
      DISCORD_TOKEN : { "", "token" },
      DISCORD_PUBLIC_KEY : { "", "zz", "ab12" } ]

\* The public keys hex.DecodeString accepts.
HexStrings == { "ab12" }

\* The error run returns before it serves, Nil when there is none.
ConfigError(env) ==
    CASE ~env.exporterOk -> "failed initializing trace exporter"
      [] env.DISCORD_TOKEN = "" -> "DISCORD_TOKEN must be provided"
      [] env.DISCORD_PUBLIC_KEY = "" -> "DISCORD_PUBLIC_KEY must be provided"
      [] env.DISCORD_PUBLIC_KEY \notin HexStrings ->
             "failed decoding application public key"
      [] OTHER -> Nil

\* main: exit code 1 when run returns an error, 0 otherwise.
ExitCode(err) == IF err # Nil THEN 1 ELSE 0

\* run returns err and main ends the process: the handlers still in flight
\* end with it.
Return(err) ==
    /\ runPc' = "exited"
    /\ runErr' = err
    /\ exitCode' = ExitCode(err)
    /\ hpc' = [h \in Handlers |-> IF InFlight(h) THEN "killed" ELSE hpc[h]]

\* run up to the select: configuration, then the listener goroutine starts.
Startup ==
    /\ runPc = "start"
    /\ \E env \in Envs :
         IF ConfigError(env) # Nil
         THEN /\ Return(ConfigError(env))
              /\ UNCHANGED lis
         ELSE /\ runPc' = "select"
              /\ lis' = "starting"
              /\ UNCHANGED << runErr, exitCode, hpc >>
    /\ UNCHANGED << interaction, lcResp, w, log, ctxDone, lisErr, errCh,
                    inShutdown, deadlineExpired, forcedClose, lisErrFirst, atSignal >>

\* srv.ListenAndServe binds :3000, or returns the bind error (ErrServerClosed
\* when the server is already shutting down).
ListenBind ==
    /\ Alive
    /\ lis = "starting"
    /\ IF inShutdown
       THEN lis' = "returned" /\ lisErr' = ErrServerClosed
       ELSE \/ lis' = "serving" /\ UNCHANGED lisErr
            \/ lis' = "returned" /\ lisErr' = ErrBind
    /\ UNCHANGED << hvars, runPc, runErr, exitCode, ctxDone, errCh, inShutdown,
                    deadlineExpired, forcedClose, lisErrFirst, atSignal >>

\* srv.ListenAndServe returns on its own with a fatal accept error.
ListenFail ==
    /\ Alive
    /\ lis = "serving"
    /\ ~inShutdown
    /\ lis' = "returned"
    /\ lisErr' = ErrAccept
    /\ UNCHANGED << hvars, runPc, runErr, exitCode, ctxDone, errCh, inShutdown,
                    deadlineExpired, forcedClose, lisErrFirst, atSignal >>

\* srv.ListenAndServe returns ErrServerClosed after Shutdown or Close.
ListenClosed ==
    /\ Alive
    /\ lis = "serving"
    /\ inShutdown
    /\ lis' = "returned"
    /\ lisErr' = ErrServerClosed
    /\ UNCHANGED << hvars, runPc, runErr, exitCode, ctxDone, errCh, inShutdown,
                    deadlineExpired, forcedClose, lisErrFirst, atSignal >>

\* errCh <- srv.ListenAndServe(): the send on the buffered channel.
SendErr ==
    /\ Alive
    /\ lis = "returned"
    /\ lis' = "sent"
    /\ errCh' = Append(errCh, lisErr)
    /\ UNCHANGED << hvars, runPc, runErr, exitCode, ctxDone, lisErr, inShutdown,
                    deadlineExpired, forcedClose, lisErrFirst, atSignal >>

\* Mutant of Interrupt: the handlers run under the signal's context, and the
\* signal ends those in flight.
Interrupt_CancelsHandlers ==
    /\ Alive
    /\ runPc # "start"
    /\ ~ctxDone
    /\ ctxDone' = TRUE
    /\ lisErrFirst' = (lis \in { "returned", "sent" } /\ lisErr # ErrServerClosed)
    /\ atSignal' = [h \in Handlers |-> InFlight(h)]
    /\ hpc' = [h \in Handlers |-> IF InFlight(h) THEN "killed" ELSE hpc[h]]
    /\ UNCHANGED << interaction, lcResp, w, log, runPc, runErr, exitCode, lis,
                    lisErr, errCh, inShutdown, deadlineExpired, forcedClose >>

\* SIGINT arrives: signal.NotifyContext cancels ctx, and nothing else.
Interrupt ==
    /\ Alive
    /\ runPc # "start"
    /\ ~ctxDone
    /\ ctxDone' = TRUE
    /\ lisErrFirst' = (lis \in { "returned", "sent" } /\ lisErr # ErrServerClosed)
    /\ atSignal' = [h \in Handlers |-> InFlight(h)]
    /\ UNCHANGED << hvars, runPc, runErr, exitCode, lis, lisErr, errCh,
                    inShutdown, deadlineExpired, forcedClose >>

\* The select takes <-ctx.Done(): srv.Shutdown starts, and returns nil at
\* once when no handler is in flight.
SelectDone ==
    /\ runPc = "select"
    /\ ctxDone
    /\ inShutdown' = TRUE
    /\ IF \A h \in Handlers : ~InFlight(h)
       THEN Return(Nil)
       ELSE /\ runPc' = "shutdown"
            /\ UNCHANGED << runErr, exitCode, hpc >>
    /\ UNCHANGED << interaction, lcResp, w, log, ctxDone, lis, lisErr, errCh,
                    deadlineExpired, forcedClose, lisErrFirst, atSignal >>

\* The select takes err := <-errCh: run returns err.
SelectErr ==
    /\ runPc = "select"
    /\ errCh # << >>
    /\ errCh' = Tail(errCh)
    /\ Return(Head(errCh))
    /\ UNCHANGED << interaction, lcResp, w, log, ctxDone, lis, lisErr,
                    inShutdown, deadlineExpired, forcedClose, lisErrFirst, atSignal >>

\* srv.Shutdown returns nil once no handler is in flight: run returns nil.
ShutdownIdle ==
    /\ runPc = "shutdown"
    /\ \A h \in Handlers : ~InFlight(h)
    /\ Return(Nil)
    /\ UNCHANGED << interaction, lcResp, w, log, ctxDone, lis, lisErr, errCh,
                    inShutdown, deadlineExpired, forcedClose, lisErrFirst, atSignal >>

\* The 15s shutdownCtx expires: srv.Shutdown returns its error.
ShutdownDeadline ==
    /\ runPc = "shutdown"
    /\ runPc' = "close"
    /\ deadlineExpired' = TRUE
    /\ UNCHANGED << hvars, runErr, exitCode, ctxDone, lis, lisErr, errCh,
                    inShutdown, forcedClose, lisErrFirst, atSignal >>

\* return srv.Close(): run returns what Close returns.
ForceClose ==
    /\ runPc = "close"
    /\ forcedClose' = TRUE
    /\ \E cerr \in { Nil, ErrClose } : Return(cerr)
    /\ UNCHANGED << interaction, lcResp, w, log, ctxDone, lis, lisErr, errCh,
                    inShutdown, deadlineExpired, lisErrFirst, atSignal >>

Init ==
    /\ hpc = [h \in Handlers |-> "idle"]
    /\ interaction = [h \in Handlers |-> NoInteraction]
    /\ lcResp = [h \in Handlers |-> << >>]
    /\ w = [h \in Handlers |-> NewResponse]
    /\ log = [h \in Handlers |-> << >>]
    /\ runPc = "start"
    /\ runErr = Nil
    /\ exitCode = -1
    /\ ctxDone = FALSE
    /\ lis = "none"
    /\ lisErr = Nil
    /\ errCh = << >>
    /\ inShutdown = FALSE
    /\ deadlineExpired = FALSE
    /\ forcedClose = FALSE
    /\ lisErrFirst = FALSE
    /\ atSignal = [h \in Handlers |-> FALSE]

Next ==
    \/ Startup
    \/ ListenBind
    \/ ListenFail
    \/ ListenClosed
    \/ SendErr
    \/ Interrupt
    \/ SelectDone
    \/ SelectErr
    \/ ShutdownIdle
    \/ ShutdownDeadline
    \/ ForceClose
    \/ \E h \in Handlers : Accept(h)
    \/ \E h \in Handlers : Verify(h)
    \/ \E h \in Handlers : Decode(h)
    \/ \E h \in Handlers : Dispatch(h)
    \/ \E h \in Handlers : PingEncode(h)
    \/ \E h \in Handlers : Fetch(h)
    \/ \E h \in Handlers : Respond(h)

Spec == Init /\ [][Next]_vars

(***************************************************************************)
(* Properties                                                              *)
(***************************************************************************)
\* The calls of one kind handler h has made, in order.
Calls(h, op) == SelectSeq(log[h], LAMBDA e : e.op = op)

\* The outbound calls and status writes of handler h, in order.
Outbound(h) ==
    SelectSeq(log[h],
              LAMBDA e : e.op \in { "RandomQuestion", "InteractionRespond",
                                     "WriteHeader" })

Failed(h, op) == \E i \in DOMAIN Calls(h, op) : ~Calls(h, op)[i].ok

Succeeded(h, op) == \E i \in DOMAIN Calls(h, op) : Calls(h, op)[i].ok

Done(h) == hpc[h] = "done"

\* The values of the options named "difficulty".
OptionValues(options) ==
    { options[i].Value :
        i \in { j \in DOMAIN options : options[j].Name = "difficulty" } }

\* Two characters are the same letter, whatever their case.
SameLetter(a, b) ==
    \/ a = b
    \/ \E i \in DOMAIN LowerLetters : { a, b } = { LowerLetters[i], UpperLetters[i] }

\* v is the label d in some letter case.
MatchesLabel(v, d) ==
    /\ Len(v) = Len(d)
    /\ \A i \in 1..Len(d) : SameLetter(v[i], d[i])

\* The difficulties the options name, in any letter case.
Labels(options) ==
    { d \in Difficulties : \E v \in OptionValues(options) : MatchesLabel(v, d) }

\* C1: on every terminal branch the handler has called WriteHeader exactly
\* once. The ping branch whose encode fails calls it twice.
C1_ExactlyOneWriteHeader ==
    \A h \in Handlers : Done(h) => Len(Calls(h, "WriteHeader")) = 1

\* C2: a request whose signature does not verify gets 400 and the handler
\* stops: no decode, no question-source call, no reply delivery.
C2_BadSignatureStops ==
    \A h \in Handlers :
        Failed(h, "VerifyInteraction") =>
            /\ Done(h)
            /\ w[h].status = StatusBadRequest
            /\ Calls(h, "WriteHeader") = << HeaderEvent(StatusBadRequest) >>
            /\ Calls(h, "Decode") = << >>
            /\ interaction[h] = NoInteraction
            /\ Calls(h, "RandomQuestion") = << >>
            /\ Calls(h, "InteractionRespond") = << >>

C2_Witness ==
    \E h \in Handlers : Failed(h, "VerifyInteraction") /\ Done(h)

\* C3, as claimed: every verified, decodable ping ends with status 200, a
\* pong body and no outbound call.
C3_PingAlwaysPong ==
    \A h \in Handlers :
        (Done(h) /\ interaction[h].Type = InteractionPing) =>
            /\ w[h].status = StatusOK
            /\ w[h].body = << InteractionResponsePong >>
            /\ Calls(h, "RandomQuestion") = << >>
            /\ Calls(h, "InteractionRespond") = << >>

\* C3, amended: a verified, decodable ping makes no outbound call, and when
\* its acknowledgment encodes it ends with status 200 and the pong body.
C3_PingAcknowledged ==
    \A h \in Handlers :
        interaction[h].Type = InteractionPing =>
            /\ Calls(h, "RandomQuestion") = << >>
            /\ Calls(h, "InteractionRespond") = << >>
            /\ (Done(h) /\ Succeeded(h, "Encode")) =>
                  /\ w[h].status = StatusOK
                  /\ Calls(h, "WriteHeader") = << HeaderEvent(StatusOK) >>
                  /\ w[h].body = << InteractionResponsePong >>

C3_Witness ==
    \E h \in Handlers :
        /\ Done(h)
        /\ interaction[h].Type = InteractionPing
        /\ Succeeded(h, "Encode")
        /\ w[h].status = StatusOK
        /\ w[h].body = << InteractionResponsePong >>

\* The case of C4: a finished command whose "difficulty" option is exactly a
\* valid difficulty and whose fetch succeeded.
C4_Case(h) ==
    /\ Done(h)
    /\ interaction[h].Type = InteractionApplicationCommand
    /\ OptionValues(interaction[h].Options) \cap Difficulties # { }
    /\ Succeeded(h, "RandomQuestion")

\* One fetch with difficulty d, then one delivery of the URL of slug s, then
\* one status write.
C4_Calls(h) ==
    /\ Len(Outbound(h)) = 3
    /\ Outbound(h)[1].op = "RandomQuestion"
    /\ Outbound(h)[1].str \in OptionValues(interaction[h].Options)
    /\ Outbound(h)[2].op = "InteractionRespond"
    /\ Outbound(h)[2].str = UrlPrefix \o lcResp[h]
    /\ Outbound(h)[3].op = "WriteHeader"

\* C4, as claimed: one fetch with d, one delivery of the URL, then 200.
C4_CommandAlways200 ==
    \A h \in Handlers :
        C4_Case(h) =>
            /\ C4_Calls(h)
            /\ Outbound(h)[3].code = StatusOK
            /\ w[h].status = StatusOK

\* C4, amended: one fetch with d, one delivery of the URL, then 200 when
\* the delivery succeeded and 500 when it failed.
C4_CommandReplies ==
    \A h \in Handlers :
        C4_Case(h) =>
            /\ C4_Calls(h)
            /\ Outbound(h)[3].code =
                   (IF Outbound(h)[2].ok THEN StatusOK
                                         ELSE StatusInternalServerError)
            /\ w[h].status = Outbound(h)[3].code

C4_Witness ==
    \E h \in Handlers :
        /\ C4_Case(h)
        /\ Calls(h, "RandomQuestion")[1].str = DifficultyEasy
        /\ lcResp[h] = << "t", "w", "o", "-", "s", "u", "m" >>
        /\ Succeeded(h, "InteractionRespond")
        /\ w[h].status = StatusOK

\* C5: when the question-source call returns an error the status is 500,
\* no reply is delivered and the question source was called once.
C5_FetchErrorIs500 ==
    \A h \in Handlers :
        Failed(h, "RandomQuestion") =>
            /\ Done(h)
            /\ w[h].status = StatusInternalServerError
            /\ Calls(h, "WriteHeader") = << HeaderEvent(StatusInternalServerError) >>
            /\ Len(Calls(h, "RandomQuestion")) = 1
            /\ Calls(h, "InteractionRespond") = << >>

C5_Witness ==
    \E h \in Handlers :
        /\ Failed(h, "RandomQuestion")
        /\ Done(h)
        /\ interaction[h].Type = InteractionApplicationCommand

\* C6: the difficulty passed to the question source is one of EASY, MEDIUM,
\* HARD; it is the option's label when the option is one of them in any
\* letter case, and otherwise each of the three can be the one resolved.
C6_DifficultyResolved ==
    \A h \in Handlers :
        interaction[h].Type = InteractionApplicationCommand =>
            LET labels == Labels(interaction[h].Options)
                calls == Calls(h, "RandomQuestion")
            IN  /\ \A i \in DOMAIN calls :
                      /\ calls[i].str \in Difficulties
                      /\ labels # { } => calls[i].str \in labels
                /\ Cardinality(labels) <= 1
                /\ hpc[h] = "fetch" =>
                      ResolveDifficulty(DifficultyOpt(interaction[h].Options))
                          = (IF labels # { } THEN labels ELSE Difficulties)

C6_Witness ==
    \E h \in Handlers :
        /\ interaction[h].Type = InteractionApplicationCommand
        /\ OptionValues(interaction[h].Options) = { << "m", "e", "d", "i", "u", "m" >> }
        /\ Len(Calls(h, "RandomQuestion")) = 1
        /\ Calls(h, "RandomQuestion")[1].str = DifficultyMedium

\* C7: when the shutdown deadline has expired the process has forced the
\* close and exits non-zero, run returning an error. run returns what
\* srv.Close returns, which is nil when the close succeeds.
C7_DeadlineExitsNonZero ==
    (runPc = "exited" /\ deadlineExpired) =>
        /\ forcedClose
        /\ runErr # Nil
        /\ exitCode # 0

\* C8: when ListenAndServe returned its own error before the interrupt
\* signal arrived, run returns that error and the exit code is 1.
C8_ListenerErrorPropagates ==
    (runPc = "exited" /\ lisErrFirst) =>
        /\ runErr = lisErr
        /\ exitCode = 1

\* C9: a ping whose acknowledgment fails to encode is answered with 500.
C9_EncodeFailureIs500 ==
    \A h \in Handlers :
        (Done(h) /\ interaction[h].Type = InteractionPing /\ Failed(h, "Encode")) =>
            w[h].status = StatusInternalServerError

\* C10, as claimed: a handler in flight when the signal arrived is cut
\* short only by the forced close after the expired shutdown deadline.
C10_OnlyForcedCloseCuts ==
    \A h \in Handlers :
        (atSignal[h] /\ hpc[h] = "killed") => (deadlineExpired /\ forcedClose)

\* C10, amended: the signal cancels no handler: while the process runs no
\* handler is cut short and an in-flight handler can take its next step, also
\* after the signal; a handler is cut short only by the process ending, after
\* the forced close that follows the expired deadline or with the listener
\* error the select took.
C10_SignalGatesShutdownOnly ==
    \A h \in Handlers :
        /\ (ctxDone /\ Alive /\ InFlight(h)) => ENABLED HandlerStep(h)
        /\ hpc[h] = "killed" =>
              /\ runPc = "exited"
              /\ \/ deadlineExpired /\ forcedClose
                 \/ runErr = ErrAccept

C10_Witness ==
    \E h \in Handlers :
        /\ atSignal[h]
        /\ Done(h)
        /\ runPc = "shutdown"

====
